---- MODULE Spec2Model ----
(***************************************************************************)
(* The weather lookup of custom-mcp-server: the module-level credential,   *)
(* fetch_weather_data (mock path, live path, failure classification), the  *)
(* get_current_weather tool and the get_weather_resource resource.         *)
(*                                                                         *)
(* Numbers.  The upstream temperature is a decimal with two places and is  *)
(* held in hundredths of a degree (15.0 is 1500, 0.04 is 4).  The rounded  *)
(* temperatures of a record are held in tenths (22.5 is 225, 59.0 is 590). *)
(* Python computes on binary doubles; round_1 reproduces its result,       *)
(* including which way a decimal tie (x.x5) falls.                         *)
(***************************************************************************)
EXTENDS Integers, Sequences, FiniteSets, TLC

\* ------------------------------------------------------------------ bounds
\* Number of invocation slots (concurrent or successive inbound calls).
MaxCalls == 2
\* Upstream temperatures of the conversion specification: -MaxTemp..MaxTemp
\* hundredths of a degree.
MaxTemp == 1600

\* ------------------------------------------------------- program constants
PLACEHOLDER == "your_api_key_here"
OPENWEATHER_BASE_URL == "https://api.openweathermap.org/data/2.5/weather"
\* The mock record's temperatures (tenths) and humidity.
MockCelsius == 225
MockFahrenheit == 725
MockHumidity == 65
\* The status fetch_weather_data singles out.
NotFound == 404

Servers == {"weather_server", "simple_weather_server"}

MockDescription(srv) ==
    IF srv = "weather_server"
    THEN "Mock weather data - please set OPENWEATHER_API_KEY environment variable"
    ELSE "Mock weather data - please set OPENWEATHER_API_KEY"

TransportPrefix(srv) ==
    IF srv = "weather_server"
    THEN "Failed to fetch weather data: "
    ELSE "Failed to fetch weather: "

\* ------------------------------------------------------------- environment
\* The OPENWEATHER_API_KEY entry of os.environ: unset, or set to a string.
Unset == [set |-> FALSE, value |-> ""]
EnvSet(v) == [set |-> TRUE, value |-> v]
EnvValues == {Unset, EnvSet(PLACEHOLDER), EnvSet(""), EnvSet("k3y")}

\* os.getenv(name, default)
getenv(e, default) == IF e.set THEN e.value ELSE default

\* ------------------------------------------------- double rounding, exactly
Abs(n) == IF n < 0 THEN -n ELSE n
Sign(n) == IF n < 0 THEN -1 ELSE IF n > 0 THEN 1 ELSE 0

RECURSIVE Pow2(_)
Pow2(k) == IF k = 0 THEN 1 ELSE 2 * Pow2(k - 1)

RECURSIVE Pow2Mod(_, _)
Pow2Mod(k, m) == IF k = 0 THEN 1 % m ELSE (2 * Pow2Mod(k - 1, m)) % m

\* The binary exponent e of num/den > 0: 2^e <= num/den < 2^(e+1).
RECURSIVE ExpoUp(_, _, _)
ExpoUp(num, den, e) ==
    IF num >= den * Pow2(e + 1) THEN ExpoUp(num, den, e + 1) ELSE e
RECURSIVE ExpoDown(_, _, _)
ExpoDown(num, den, e) ==
    IF num * Pow2(e) < den THEN ExpoDown(num, den, e + 1) ELSE -e
Expo(num, den) ==
    IF num >= den THEN ExpoUp(num, den, 0) ELSE ExpoDown(num, den, 0)

\* The sign of (the double nearest to num/den) - num/den, for num/den > 0:
\* the double is the multiple of 2^(e-52) nearest to num/den, so the sign is
\* read off the remainder of num * 2^(52-e) modulo den.
ErrSign(num, den) ==
    LET r == (num * Pow2Mod(52 - Expo(num, den), den)) % den
    IN  IF r = 0 THEN 0 ELSE IF 2 * r < den THEN -1 ELSE 1

\* round(x, 1) at a decimal tie: q is the magnitude truncated to tenths, s the
\* sign of (double - decimal) in magnitude; an exact tie goes to the even tenth.
TieBreak(q, s) ==
    IF s < 0 THEN q
    ELSE IF s > 0 THEN q + 1
    ELSE IF q % 2 = 0 THEN q ELSE q + 1

\* round(temp_celsius, 1) for temp_celsius = h/100, in tenths.  The tie h = ..5
\* falls the way the double nearest to h/100 lies.
round_celsius(h) ==
    LET a == Abs(h)
        q == a \div 10
        r == a % 10
        t == IF r < 5 THEN q
             ELSE IF r > 5 THEN q + 1
             ELSE TieBreak(q, ErrSign(a, 100))
    IN  IF h < 0 THEN -t ELSE t

\* round((temp_celsius * 9/5) + 32, 1) for temp_celsius = h/100, in tenths.
\* The decimal value is (18h + 32000)/1000.  It is a tie only when h/100 is a
\* multiple of 1/4: then h/100 and h/100 * 9 are exact doubles, y = (9h/100)/5
\* is rounded once, and y + 32 is exact when y's exponent is not below the
\* sum's (the sum inherits y's error), and otherwise rounds to the double
\* nearest to the decimal value.
round_fahrenheit(h) ==
    LET fx == 18 * h + 32000
        a  == Abs(fx)
        q  == a \div 100
        r  == a % 100
        y  == Abs(18 * h)
        s  == IF Expo(y, 1000) >= Expo(a, 1000)
              THEN ErrSign(y, 1000) * Sign(h) * Sign(fx)
              ELSE ErrSign(a, 1000)
        t  == IF r < 50 THEN q
              ELSE IF r > 50 THEN q + 1
              ELSE TieBreak(q, s)
    IN  IF fx < 0 THEN -t ELSE t

\* ------------------------------------------------------- upstream responses
\* A JSON object is a function from its keys; a missing key is a key outside
\* its DOMAIN.  A JSON array is a sequence.
Payload(name, t, hum, cond, desc) ==
    [name |-> name,
     main |-> [temp |-> t, humidity |-> hum],
     weather |-> <<[main |-> cond, description |-> desc]>>]

Nominal(t) == Payload("London", t, 80, "Rain", "light rain")

\* Payloads that lack something fetch_weather_data reads.
MalformedPayloads ==
    { [main |-> [temp |-> 1500, humidity |-> 80],
       weather |-> <<[main |-> "Rain", description |-> "light rain"]>>],
      [name |-> "London",
       weather |-> <<[main |-> "Rain", description |-> "light rain"]>>],
      [name |-> "London", main |-> [humidity |-> 80],
       weather |-> <<[main |-> "Rain", description |-> "light rain"]>>],
      [name |-> "London", main |-> [temp |-> 1500],
       weather |-> <<[main |-> "Rain", description |-> "light rain"]>>],
      [name |-> "London", main |-> [temp |-> 1500, humidity |-> 80]],
      [name |-> "London", main |-> [temp |-> 1500, humidity |-> 80],
       weather |-> <<>>],
      [name |-> "London", main |-> [temp |-> 1500, humidity |-> 80],
       weather |-> <<[description |-> "light rain"]>>],
      [name |-> "London", main |-> [temp |-> 1500, humidity |-> 80],
       weather |-> <<[main |-> "Rain"]>>] }

\* Payloads fetch_weather_data accepts: temperatures with zero, one and two
\* decimals, a negative tie, and humidities the upstream may send.
WellFormedPayloads ==
    { Nominal(1500), Nominal(4), Nominal(-1475),
      Payload("Tokyo", 2537, 150, "Clear", "clear sky") }

\* client.get raised: the request did not complete.
Exceptions ==
    { [kind |-> "exception", exc |-> "ConnectTimeout", text |-> "timed out"],
      [kind |-> "exception", exc |-> "ConnectError",
       text |-> "All connection attempts failed"] }

\* client.get returned: a status and a body (<<>> when the body is not JSON,
\* <<data>> when it is the JSON object data).
Http(status, body) == [kind |-> "http", status |-> status, body |-> body]

Statuses == {204, 301, 404, 500, 503}

\* Every shape of response.
Responses ==
    Exceptions
    \cup { Http(s, <<>>) : s \in Statuses }
    \cup { Http(404, <<Nominal(1500)>>), Http(200, <<>>) }
    \cup { Http(200, <<d>>) : d \in MalformedPayloads \cup WellFormedPayloads }

\* Well-formed responses over the whole temperature range.
TempResponses == { Http(200, <<Nominal(t)>>) : t \in -MaxTemp..MaxTemp }

\* One response of each class, for runs of several calls.
CoreResponses ==
    { [kind |-> "exception", exc |-> "ConnectTimeout", text |-> "timed out"],
      Http(404, <<>>), Http(500, <<>>), Http(200, <<>>),
      Http(200, <<Nominal(1500)>>), Http(200, <<Nominal(4)>>),
      Http(200, <<[name |-> "London", main |-> [temp |-> 1500],
                   weather |-> <<[main |-> "Rain",
                                  description |-> "light rain"]>>]>>) }

\* Variant: only 4xx and 5xx statuses raise.
is_success_below_400(status) == status < 400

\* httpx.Response.is_success, which raise_for_status tests.
is_success(status) == status >= 200 /\ status <= 299

\* ------------------------------------------------------ fetch_weather_data
RecordKeys ==
    <<"city_name", "temperature_celsius", "temperature_fahrenheit",
      "condition", "humidity", "description">>

\* Variant: the mock path is chosen when no usable credential is configured.
mock_mode_falsy(key) == key = PLACEHOLDER \/ key = ""

\* The branch condition of fetch_weather_data.
mock_mode(key) == key = PLACEHOLDER

\* Variant: the mock record names a fixed city.
MockRecordFixedCity(srv, city) ==
    [city_name |-> "London",
     temperature_celsius |-> MockCelsius,
     temperature_fahrenheit |-> MockFahrenheit,
     condition |-> "Partly Cloudy",
     humidity |-> MockHumidity,
     description |-> MockDescription(srv)]

\* The mock record (the credential is the placeholder).
MockRecord(srv, city) ==
    [city_name |-> city,
     temperature_celsius |-> MockCelsius,
     temperature_fahrenheit |-> MockFahrenheit,
     condition |-> "Partly Cloudy",
     humidity |-> MockHumidity,
     description |-> MockDescription(srv)]

\* The GET the live path issues.
Request(city, key) ==
    [url |-> OPENWEATHER_BASE_URL,
     params |-> [q |-> city, appid |-> key, units |-> "metric"]]

Returned(v) == [raised |-> FALSE, value |-> v]
Raised(type, text, status) ==
    [raised |-> TRUE, type |-> type, text |-> text, status |-> status]

\* str(KeyError(k))
KeyErrorText(k) == "'" \o k \o "'"

\* Variant: a humidity the payload lacks is left out of the record.
NormalizeLenient(data) ==
    IF \/ {"name", "main", "weather"} \ DOMAIN data # {}
       \/ "temp" \notin DOMAIN data.main
       \/ Len(data.weather) = 0
       \/ {"main", "description"} \ DOMAIN data.weather[1] # {}
    THEN Raised("KeyError", "", 0)
    ELSE IF "humidity" \notin DOMAIN data.main
    THEN Returned([city_name |-> data.name,
                   temperature_celsius |-> round_celsius(data.main.temp),
                   temperature_fahrenheit |-> round_fahrenheit(data.main.temp),
                   condition |-> data.weather[1].main,
                   description |-> data.weather[1].description])
    ELSE Returned([city_name |-> data.name,
                   temperature_celsius |-> round_celsius(data.main.temp),
                   temperature_fahrenheit |-> round_fahrenheit(data.main.temp),
                   condition |-> data.weather[1].main,
                   humidity |-> data.main.humidity,
                   description |-> data.weather[1].description])

\* Variant: Fahrenheit is converted from the rounded Celsius value.
NormalizeFromRounded(data) ==
    IF \/ {"name", "main", "weather"} \ DOMAIN data # {}
       \/ {"temp", "humidity"} \ DOMAIN data.main # {}
       \/ Len(data.weather) = 0
       \/ {"main", "description"} \ DOMAIN data.weather[1] # {}
    THEN Raised("KeyError", "", 0)
    ELSE Returned([city_name |-> data.name,
                   temperature_celsius |-> round_celsius(data.main.temp),
                   temperature_fahrenheit |->
                       round_fahrenheit(10 * round_celsius(data.main.temp)),
                   condition |-> data.weather[1].main,
                   humidity |-> data.main.humidity,
                   description |-> data.weather[1].description])

\* Variant: the humidity is clamped to a percentage.
NormalizeClamped(data) ==
    IF \/ {"name", "main", "weather"} \ DOMAIN data # {}
       \/ {"temp", "humidity"} \ DOMAIN data.main # {}
       \/ Len(data.weather) = 0
       \/ {"main", "description"} \ DOMAIN data.weather[1] # {}
    THEN Raised("KeyError", "", 0)
    ELSE Returned([city_name |-> data.name,
                   temperature_celsius |-> round_celsius(data.main.temp),
                   temperature_fahrenheit |-> round_fahrenheit(data.main.temp),
                   condition |-> data.weather[1].main,
                   humidity |-> IF data.main.humidity > 100 THEN 100
                                ELSE IF data.main.humidity < 0 THEN 0
                                ELSE data.main.humidity,
                   description |-> data.weather[1].description])

\* The record built from the parsed payload, key by key in the order the dict
\* display evaluates them; the first key that is missing raises.
Normalize(data) ==
    IF "main" \notin DOMAIN data THEN Raised("KeyError", KeyErrorText("main"), 0)
    ELSE IF "temp" \notin DOMAIN data.main
         THEN Raised("KeyError", KeyErrorText("temp"), 0)
    ELSE IF "name" \notin DOMAIN data
         THEN Raised("KeyError", KeyErrorText("name"), 0)
    ELSE IF "weather" \notin DOMAIN data
         THEN Raised("KeyError", KeyErrorText("weather"), 0)
    ELSE IF Len(data.weather) = 0
         THEN Raised("IndexError", "list index out of range", 0)
    ELSE IF "main" \notin DOMAIN data.weather[1]
         THEN Raised("KeyError", KeyErrorText("main"), 0)
    ELSE IF "humidity" \notin DOMAIN data.main
         THEN Raised("KeyError", KeyErrorText("humidity"), 0)
    ELSE IF "description" \notin DOMAIN data.weather[1]
         THEN Raised("KeyError", KeyErrorText("description"), 0)
    ELSE Returned([city_name |-> data.name,
                   temperature_celsius |-> round_celsius(data.main.temp),
                   temperature_fahrenheit |-> round_fahrenheit(data.main.temp),
                   condition |-> data.weather[1].main,
                   humidity |-> data.main.humidity,
                   description |-> data.weather[1].description])

\* The try block of the live path, given what client.get did.
TryBody(resp) ==
    IF resp.kind = "exception" THEN Raised(resp.exc, resp.text, 0)
    ELSE IF ~is_success(resp.status)
         THEN Raised("HTTPStatusError", "", resp.status)
    ELSE IF resp.body = <<>>
         THEN Raised("JSONDecodeError",
                     "Expecting value: line 1 column 1 (char 0)", 0)
    ELSE Normalize(resp.body[1])

Success(rec) == [ok |-> TRUE, record |-> rec]
Failure(kind, msg) == [ok |-> FALSE, failure |-> kind, message |-> msg]

\* except httpx.HTTPStatusError
StatusHandler(city, e) ==
    IF e.status = NotFound
    THEN Failure("CityNotFound", "City '" \o city \o "' not found")
    ELSE Failure("UpstreamError", "Weather API error: " \o ToString(e.status))

\* Variant: only transport exceptions are caught; the others leave
\* fetch_weather_data as they are.
GenericHandlerTransportOnly(srv, e) ==
    IF e.type \in {"ConnectTimeout", "ConnectError"}
    THEN Failure("TransportError", TransportPrefix(srv) \o e.text)
    ELSE Failure(e.type, e.text)

\* except Exception
GenericHandler(srv, e) ==
    Failure("TransportError", TransportPrefix(srv) \o e.text)

\* Variant: what the status handler raises is caught by the generic clause.
HandlersRecaught(srv, city, r) ==
    IF ~r.raised THEN Success(r.value)
    ELSE IF r.type = "HTTPStatusError"
         THEN Failure("TransportError",
                      TransportPrefix(srv) \o StatusHandler(city, r).message)
    ELSE GenericHandler(srv, r)

\* The except clauses: the first clause matching the exception's type handles
\* it, and what a handler raises leaves the try statement.
Handlers(srv, city, r) ==
    IF ~r.raised THEN Success(r.value)
    ELSE IF r.type = "HTTPStatusError" THEN StatusHandler(city, r)
    ELSE GenericHandler(srv, r)

\* Variant: the record names the city as the caller gave it.
LiveOutcomeEchoCity(srv, city, resp) ==
    LET o == Handlers(srv, city, TryBody(resp))
    IN  IF o.ok THEN Success([o.record EXCEPT !.city_name = city]) ELSE o

\* The live path from the response on.
LiveOutcome(srv, city, resp) == Handlers(srv, city, TryBody(resp))

\* ---------------------------------------------------------------- endpoints
\* json.dumps of a dict: the members it has, in insertion order (keys lists
\* the keys in the order the dict display inserts them).
json_dumps(keys, d) ==
    LET present == SelectSeq(keys, LAMBDA k : k \in DOMAIN d)
    IN  [i \in 1..Len(present) |-> <<present[i], d[present[i]]>>]

\* The keys of the object json.loads gives back.
JsonKeys(text) == { text[i][1] : i \in 1..Len(text) }
JsonGet(text, k) == text[CHOOSE i \in 1..Len(text) : text[i][1] = k][2]

\* Variant: the error object does not carry the failure's message.
get_current_weather_no_message(city, outcome) ==
    IF outcome.ok
    THEN json_dumps(RecordKeys, outcome.record)
    ELSE json_dumps(<<"error", "city", "success">>,
                    [error |-> "error", city |-> city, success |-> FALSE])

get_current_weather(city, outcome) ==
    IF outcome.ok
    THEN json_dumps(RecordKeys, outcome.record)
    ELSE json_dumps(<<"error", "city", "success">>,
                    [error |-> outcome.message, city |-> city, success |-> FALSE])

\* The keys the resource's f-string reads, in order.
ResourceKeys ==
    <<"city_name", "temperature_celsius", "temperature_fahrenheit",
      "condition", "description", "humidity">>

\* The f-string is inside the try: a key it does not find raises KeyError,
\* which the except clause formats like a failed fetch.  The prose is held
\* as its parts, the degree signs left out.
get_weather_resource(city_name, outcome) ==
    LET missing ==
            IF outcome.ok
            THEN SelectSeq(ResourceKeys,
                           LAMBDA k : k \notin DOMAIN outcome.record)
            ELSE <<>>
    IN  IF ~outcome.ok
        THEN <<"Error fetching weather for " \o city_name \o ": "
               \o outcome.message>>
        ELSE IF missing # <<>>
        THEN <<"Error fetching weather for " \o city_name \o ": "
               \o KeyErrorText(missing[1])>>
        ELSE <<"Current Weather for ", outcome.record.city_name,
               ":\nTemperature: ", outcome.record.temperature_celsius,
               "C (", outcome.record.temperature_fahrenheit,
               "F)\nCondition: ", outcome.record.condition,
               "\nDescription: ", outcome.record.description,
               "\nHumidity: ", outcome.record.humidity, "%\n">>

\* simple_weather_server.get_weather's return value: the prose of the record,
\* or the except clause's string with str(e).
FormatWeather(city, outcome) ==
    IF outcome.ok
    THEN <<"Current weather in ", outcome.record.city_name,
           ":\nTemperature: ", outcome.record.temperature_celsius,
           "C (", outcome.record.temperature_fahrenheit,
           "F)\nCondition: ", outcome.record.condition,
           " - ", outcome.record.description,
           "\nHumidity: ", outcome.record.humidity, "%">>
    ELSE <<"Error getting weather for " \o city \o ": " \o outcome.message>>

\* compare_weather's prose; the difference is formatted with one decimal, so
\* it is the difference of the two one-decimal temperatures, in tenths.
FormatComparison(weather1, weather2) ==
    <<"Weather Comparison:\n\n", weather1.city_name,
      ":\n- Temperature: ", weather1.temperature_celsius,
      "C\n- Condition: ", weather1.condition,
      "\n- Humidity: ", weather1.humidity, "%\n\n",
      weather2.city_name,
      ":\n- Temperature: ", weather2.temperature_celsius,
      "C\n- Condition: ", weather2.condition,
      "\n- Humidity: ", weather2.humidity,
      "%\n\nTemperature difference: ",
      Abs(weather1.temperature_celsius - weather2.temperature_celsius), "C">>

\* compare_weather's except clause.
CompareError(text) == <<"Error comparing weather: " \o text>>

\* str(e) of the RuntimeError asyncio.create_task raises when no event loop
\* is running in the calling thread, and of the one asyncio.run raises when
\* one is.
NoRunningLoop == "no running event loop"
RunFromRunningLoop ==
    "asyncio.run() cannot be called from a running event loop"

\* debug_weather_server.get_weather from the response on: one try block, one
\* except clause; the exception is kept as it was raised.
DebugResult(city, resp) ==
    LET prefix == "[YOUR CUSTOM MCP SERVER] "
        error(e) == <<prefix \o "Error getting weather for " \o city \o ": ", e>>
    IN  IF resp.kind = "exception" THEN error(Raised(resp.exc, resp.text, 0))
        ELSE IF ~is_success(resp.status)
             THEN error(Raised("HTTPStatusError", "", resp.status))
        ELSE IF resp.body = <<>>
             THEN error(Raised("JSONDecodeError",
                               "Expecting value: line 1 column 1 (char 0)", 0))
        ELSE LET data == resp.body[1]
             IN  IF "main" \notin DOMAIN data
                 THEN error(Raised("KeyError", KeyErrorText("main"), 0))
                 ELSE IF "temp" \notin DOMAIN data.main
                 THEN error(Raised("KeyError", KeyErrorText("temp"), 0))
                 ELSE IF "weather" \notin DOMAIN data
                 THEN error(Raised("KeyError", KeyErrorText("weather"), 0))
                 ELSE IF Len(data.weather) = 0
                 THEN error(Raised("IndexError", "list index out of range", 0))
                 ELSE IF "main" \notin DOMAIN data.weather[1]
                 THEN error(Raised("KeyError", KeyErrorText("main"), 0))
                 ELSE IF "humidity" \notin DOMAIN data.main
                 THEN error(Raised("KeyError", KeyErrorText("humidity"), 0))
                 ELSE <<prefix \o "Weather in " \o city \o ": ",
                        data.main.temp, "C, ", data.weather[1].main, ", ",
                        data.main.humidity, "% humidity">>

\* debug_weather_server.get_weather on the placeholder credential.
DebugMock(city) ==
    <<"[YOUR CUSTOM MCP SERVER] Mock weather for " \o city
      \o ": 22C, sunny, 60% humidity">>

Endpoints(srv) ==
    IF srv = "weather_server"
    THEN {"fetch_weather_data", "get_current_weather", "get_weather_resource"}
    ELSE {"fetch_weather_data"}

\* What the endpoint hands its caller once the fetch has ended.
EndpointResult(ep, city, outcome) ==
    IF ep = "get_current_weather" THEN get_current_weather(city, outcome)
    ELSE IF ep = "get_weather_resource" THEN get_weather_resource(city, outcome)
    ELSE IF ep = "get_weather" THEN FormatWeather(city, outcome)
    ELSE outcome

\* -------------------------------------------------------------------- state
VARIABLES
    server,               \* the script this process runs
    environ,              \* os.environ's OPENWEATHER_API_KEY entry
    OPENWEATHER_API_KEY,  \* the module global, read from environ at import
    calls,                \* the invocations, by slot
    testPc,               \* test_mock_mode: "start", "patched", "restored"
    original_key,         \* test_mock_mode's saved environment entry
    spawned               \* by slot: what a synchronous tool started besides
                          \* the fetch whose result it uses

vars ==
    <<server, environ, OPENWEATHER_API_KEY, calls, testPc, original_key,
      spawned>>

Slots == 1..MaxCalls
Cities == {"london", "Nowhereville"}

\* A slot no call has used.  requests: the GETs the call issued; response,
\* outcome, result: empty, or the one value (what client.get did, how
\* fetch_weather_data ended, what the endpoint handed back).
Idle ==
    [pc |-> "idle", endpoint |-> "", city |-> "", requests |-> <<>>,
     response |-> <<>>, outcome |-> <<>>, result |-> <<>>]

\* A call that started nothing else.  loop: an event loop is running in the
\* calling thread; city2: compare_weather's second city; pc, requests,
\* response, outcome: the other fetch_weather_data execution (get_weather's
\* task, compare_weather's second asyncio.run), "none" when there is none,
\* "pending" when it is scheduled and has not run yet.
NoSpawn ==
    [loop |-> FALSE, city2 |-> "", pc |-> "none", requests |-> <<>>,
     response |-> <<>>, outcome |-> <<>>]

\* The module is imported with the environment the process was started with.
Load(envs) ==
    /\ server \in Servers
    /\ environ \in envs
    /\ OPENWEATHER_API_KEY = getenv(environ, PLACEHOLDER)
    /\ calls = [i \in Slots |-> Idle]
    /\ testPc = "start"
    /\ original_key = Unset
    /\ spawned = [i \in Slots |-> NoSpawn]

Init == Load(EnvValues)

\* Variant: the credential is read from the environment at each call.
InvokeReadingEnviron(i, ep, city) ==
    /\ calls[i].pc = "idle"
    /\ \A j \in 1..(i - 1) : calls[j].pc # "idle"
    /\ ep \in Endpoints(server)
    /\ LET key == getenv(environ, PLACEHOLDER)
       IN  calls' =
             [calls EXCEPT ![i] =
                IF mock_mode(key)
                THEN [pc |-> "done", endpoint |-> ep, city |-> city,
                      requests |-> <<>>, response |-> <<>>,
                      outcome |-> <<Success(MockRecord(server, city))>>,
                      result |-> <<EndpointResult(ep, city,
                                     Success(MockRecord(server, city)))>>]
                ELSE [pc |-> "awaiting", endpoint |-> ep, city |-> city,
                      requests |-> <<Request(city, key)>>,
                      response |-> <<>>, outcome |-> <<>>, result |-> <<>>]]
    /\ UNCHANGED <<server, environ, OPENWEATHER_API_KEY, testPc, original_key,
                   spawned>>

\* An endpoint is invoked and runs to its first await: on the placeholder
\* credential the mock record is returned at once, otherwise the GET is
\* issued and the call waits for it.
Invoke(i, ep, city) ==
    /\ calls[i].pc = "idle"
    /\ \A j \in 1..(i - 1) : calls[j].pc # "idle"
    /\ ep \in Endpoints(server)
    /\ calls' =
         [calls EXCEPT ![i] =
            IF mock_mode(OPENWEATHER_API_KEY)
            THEN [pc |-> "done", endpoint |-> ep, city |-> city,
                  requests |-> <<>>, response |-> <<>>,
                  outcome |-> <<Success(MockRecord(server, city))>>,
                  result |-> <<EndpointResult(ep, city,
                                 Success(MockRecord(server, city)))>>]
            ELSE [pc |-> "awaiting", endpoint |-> ep, city |-> city,
                  requests |-> <<Request(city, OPENWEATHER_API_KEY)>>,
                  response |-> <<>>, outcome |-> <<>>, result |-> <<>>]]
    /\ UNCHANGED <<server, environ, OPENWEATHER_API_KEY, testPc, original_key,
                   spawned>>

\* Variant: a record fetched earlier for the same city is handed out again,
\* marked as cached.
DeliverCached(i, resp) ==
    /\ calls[i].pc = "awaiting"
    /\ LET c == calls[i]
           hits == { j \in Slots : /\ calls[j].pc = "done"
                                   /\ calls[j].city = c.city
                                   /\ calls[j].outcome[1].ok }
           outcome ==
               IF hits = {} THEN LiveOutcome(server, c.city, resp)
               ELSE LET r == calls[CHOOSE j \in hits : TRUE].outcome[1].record
                    IN  Success([r EXCEPT !.description = @ \o " (cached)"])
       IN  calls' =
             [calls EXCEPT ![i] =
                [pc |-> "done", endpoint |-> c.endpoint, city |-> c.city,
                 requests |-> c.requests, response |-> <<resp>>,
                 outcome |-> <<outcome>>,
                 result |-> <<EndpointResult(c.endpoint, c.city, outcome)>>]]
    /\ UNCHANGED <<server, environ, OPENWEATHER_API_KEY, testPc, original_key,
                   spawned>>

\* Variant: the calls share one client, and a call that failed leaves it
\* unusable for the calls that end after it.
DeliverPoisoned(i, resp) ==
    /\ calls[i].pc = "awaiting"
    /\ LET c == calls[i]
           failed == { j \in Slots : /\ calls[j].pc = "done"
                                     /\ ~calls[j].outcome[1].ok }
           outcome ==
               IF failed = {} THEN LiveOutcome(server, c.city, resp)
               ELSE calls[CHOOSE j \in failed : TRUE].outcome[1]
       IN  calls' =
             [calls EXCEPT ![i] =
                [pc |-> "done", endpoint |-> c.endpoint, city |-> c.city,
                 requests |-> c.requests, response |-> <<resp>>,
                 outcome |-> <<outcome>>,
                 result |-> <<EndpointResult(c.endpoint, c.city, outcome)>>]]
    /\ UNCHANGED <<server, environ, OPENWEATHER_API_KEY, testPc, original_key,
                   spawned>>

\* client.get ends (raising, or returning a response) and the call runs to
\* its end: the try body, the handlers, then the endpoint's own formatting.
Deliver(i, resp) ==
    /\ calls[i].pc = "awaiting"
    /\ LET c == calls[i]
           outcome == LiveOutcome(server, c.city, resp)
       IN  calls' =
             [calls EXCEPT ![i] =
                [pc |-> "done", endpoint |-> c.endpoint, city |-> c.city,
                 requests |-> c.requests, response |-> <<resp>>,
                 outcome |-> <<outcome>>,
                 result |-> <<EndpointResult(c.endpoint, c.city, outcome)>>]]
    /\ UNCHANGED <<server, environ, OPENWEATHER_API_KEY, testPc, original_key,
                   spawned>>

\* test_mock_mode saves the environment entry and sets the placeholder.
PatchEnviron ==
    /\ server = "weather_server"
    /\ testPc = "start"
    /\ original_key' = environ
    /\ environ' = EnvSet(PLACEHOLDER)
    /\ testPc' = "patched"
    /\ UNCHANGED <<server, OPENWEATHER_API_KEY, calls, spawned>>

\* test_mock_mode's finally: a saved entry that is truthy is put back.
RestoreEnviron ==
    /\ testPc = "patched"
    /\ environ' = IF original_key.set /\ original_key.value # ""
                  THEN original_key ELSE environ
    /\ testPc' = "restored"
    /\ UNCHANGED <<server, OPENWEATHER_API_KEY, calls, original_key, spawned>>

Next ==
    \/ \E i \in Slots, ep \in Endpoints(server), city \in Cities :
         Invoke(i, ep, city)
    \/ \E i \in Slots, resp \in CoreResponses : Deliver(i, resp)
    \/ PatchEnviron
    \/ RestoreEnviron

\* Several calls, concurrent or successive, with one response of each class.
Spec == Init /\ [][Next]_vars

\* One call of any endpoint, over every shape of response and the whole
\* temperature range.
InitFetch == Load(EnvValues)

NextFetch ==
    \/ \E ep \in Endpoints(server), city \in Cities : Invoke(1, ep, city)
    \/ \E resp \in Responses \cup TempResponses : Deliver(1, resp)

SpecFetch == InitFetch /\ [][NextFetch]_vars

\* ------------------------------------------------- the synchronous tools
BridgeServers == Servers \cup {"debug_weather_server"}

\* simple_weather_server.get_weather is called, in a thread whose event loop
\* is running (loop) or in one that has none.  create_task schedules one
\* execution of fetch_weather_data on the running loop and raises when there
\* is none; with a running loop a worker thread then runs a second execution
\* under asyncio.run while the calling thread, and with it the loop, blocks
\* in future.result().
GetWeatherCall(i, city, loop) ==
    /\ server = "simple_weather_server"
    /\ calls[i].pc = "idle"
    /\ \A j \in 1..(i - 1) : calls[j].pc # "idle"
    /\ calls' =
         [calls EXCEPT ![i] =
            IF ~loop
            THEN [pc |-> "done", endpoint |-> "get_weather", city |-> city,
                  requests |-> <<>>, response |-> <<>>, outcome |-> <<>>,
                  result |-> <<<<"Error getting weather for " \o city \o ": "
                                 \o NoRunningLoop>>>>]
            ELSE IF mock_mode(OPENWEATHER_API_KEY)
            THEN [pc |-> "done", endpoint |-> "get_weather", city |-> city,
                  requests |-> <<>>, response |-> <<>>,
                  outcome |-> <<Success(MockRecord(server, city))>>,
                  result |-> <<FormatWeather(city,
                                 Success(MockRecord(server, city)))>>]
            ELSE [pc |-> "awaiting", endpoint |-> "get_weather", city |-> city,
                  requests |-> <<Request(city, OPENWEATHER_API_KEY)>>,
                  response |-> <<>>, outcome |-> <<>>, result |-> <<>>]]
    /\ spawned' =
         [spawned EXCEPT ![i] =
            [loop |-> loop, city2 |-> "",
             pc |-> IF loop THEN "pending" ELSE "none",
             requests |-> <<>>, response |-> <<>>, outcome |-> <<>>]]
    /\ UNCHANGED <<server, environ, OPENWEATHER_API_KEY, testPc, original_key>>

\* get_weather has returned and the loop runs again: the task create_task
\* scheduled starts, and runs fetch_weather_data to its first await.
TaskStart(i) ==
    /\ calls[i].pc = "done"
    /\ spawned[i].pc = "pending"
    /\ spawned' =
         [spawned EXCEPT ![i] =
            IF mock_mode(OPENWEATHER_API_KEY)
            THEN [loop |-> TRUE, city2 |-> "", pc |-> "done",
                  requests |-> <<>>, response |-> <<>>,
                  outcome |-> <<Success(MockRecord(server, calls[i].city))>>]
            ELSE [loop |-> TRUE, city2 |-> "", pc |-> "awaiting",
                  requests |-> <<Request(calls[i].city, OPENWEATHER_API_KEY)>>,
                  response |-> <<>>, outcome |-> <<>>]]
    /\ UNCHANGED <<server, environ, OPENWEATHER_API_KEY, calls, testPc,
                   original_key>>

\* The task's GET ends and the task runs to its end; nobody awaits it.
TaskDeliver(i, resp) ==
    /\ calls[i].pc = "done"
    /\ calls[i].endpoint = "get_weather"
    /\ spawned[i].pc = "awaiting"
    /\ spawned' =
         [spawned EXCEPT ![i] =
            [loop |-> TRUE, city2 |-> "", pc |-> "done",
             requests |-> spawned[i].requests, response |-> <<resp>>,
             outcome |-> <<LiveOutcome(server, calls[i].city, resp)>>]]
    /\ UNCHANGED <<server, environ, OPENWEATHER_API_KEY, calls, testPc,
                   original_key>>

\* compare_weather is called.  asyncio.run raises when a loop is running in
\* the calling thread; otherwise the first fetch runs to its first await, and
\* on the placeholder credential both fetches return at once.
CompareCall(i, city1, city2, loop) ==
    /\ server = "simple_weather_server"
    /\ calls[i].pc = "idle"
    /\ \A j \in 1..(i - 1) : calls[j].pc # "idle"
    /\ calls' =
         [calls EXCEPT ![i] =
            IF loop
            THEN [pc |-> "done", endpoint |-> "compare_weather",
                  city |-> city1, requests |-> <<>>, response |-> <<>>,
                  outcome |-> <<>>,
                  result |-> <<CompareError(RunFromRunningLoop)>>]
            ELSE IF mock_mode(OPENWEATHER_API_KEY)
            THEN [pc |-> "done", endpoint |-> "compare_weather",
                  city |-> city1, requests |-> <<>>, response |-> <<>>,
                  outcome |-> <<Success(MockRecord(server, city1))>>,
                  result |-> <<FormatComparison(MockRecord(server, city1),
                                                MockRecord(server, city2))>>]
            ELSE [pc |-> "awaiting_first", endpoint |-> "compare_weather",
                  city |-> city1,
                  requests |-> <<Request(city1, OPENWEATHER_API_KEY)>>,
                  response |-> <<>>, outcome |-> <<>>, result |-> <<>>]]
    /\ spawned' =
         [spawned EXCEPT ![i] =
            IF ~loop /\ mock_mode(OPENWEATHER_API_KEY)
            THEN [loop |-> loop, city2 |-> city2, pc |-> "done",
                  requests |-> <<>>, response |-> <<>>,
                  outcome |-> <<Success(MockRecord(server, city2))>>]
            ELSE [loop |-> loop, city2 |-> city2, pc |-> "none",
                  requests |-> <<>>, response |-> <<>>, outcome |-> <<>>]]
    /\ UNCHANGED <<server, environ, OPENWEATHER_API_KEY, testPc, original_key>>

\* The first fetch's GET ends: a failure leaves compare_weather through its
\* except clause, a record lets the second asyncio.run start and issue its
\* GET.
CompareFirst(i, resp) ==
    /\ calls[i].pc = "awaiting_first"
    /\ LET c == calls[i]
           outcome == LiveOutcome(server, c.city, resp)
       IN  /\ calls' =
                [calls EXCEPT ![i] =
                   [pc |-> IF outcome.ok THEN "awaiting_second" ELSE "done",
                    endpoint |-> c.endpoint, city |-> c.city,
                    requests |-> c.requests, response |-> <<resp>>,
                    outcome |-> <<outcome>>,
                    result |-> IF outcome.ok THEN <<>>
                               ELSE <<CompareError(outcome.message)>>]]
           /\ spawned' =
                [spawned EXCEPT ![i] =
                   IF outcome.ok
                   THEN [@ EXCEPT !.pc = "awaiting",
                                  !.requests = <<Request(spawned[i].city2,
                                                 OPENWEATHER_API_KEY)>>]
                   ELSE @]
    /\ UNCHANGED <<server, environ, OPENWEATHER_API_KEY, testPc, original_key>>

\* The second fetch's GET ends and compare_weather runs to its end.
CompareSecond(i, resp) ==
    /\ calls[i].pc = "awaiting_second"
    /\ LET c == calls[i]
           outcome == LiveOutcome(server, spawned[i].city2, resp)
       IN  /\ calls' =
                [calls EXCEPT ![i] =
                   [pc |-> "done", endpoint |-> c.endpoint, city |-> c.city,
                    requests |-> c.requests, response |-> c.response,
                    outcome |-> c.outcome,
                    result |-> IF outcome.ok
                               THEN <<FormatComparison(c.outcome[1].record,
                                                       outcome.record)>>
                               ELSE <<CompareError(outcome.message)>>]]
           /\ spawned' =
                [spawned EXCEPT ![i] =
                   [loop |-> FALSE, city2 |-> spawned[i].city2, pc |-> "done",
                    requests |-> spawned[i].requests, response |-> <<resp>>,
                    outcome |-> <<outcome>>]]
    /\ UNCHANGED <<server, environ, OPENWEATHER_API_KEY, testPc, original_key>>

\* debug_weather_server.get_weather is called: the mock string on the
\* placeholder credential, otherwise the GET is issued by the calling thread.
DebugCall(i, city) ==
    /\ server = "debug_weather_server"
    /\ calls[i].pc = "idle"
    /\ \A j \in 1..(i - 1) : calls[j].pc # "idle"
    /\ calls' =
         [calls EXCEPT ![i] =
            IF OPENWEATHER_API_KEY = PLACEHOLDER
            THEN [pc |-> "done", endpoint |-> "get_weather", city |-> city,
                  requests |-> <<>>, response |-> <<>>, outcome |-> <<>>,
                  result |-> <<DebugMock(city)>>]
            ELSE [pc |-> "debug_awaiting", endpoint |-> "get_weather",
                  city |-> city,
                  requests |-> <<Request(city, OPENWEATHER_API_KEY)>>,
                  response |-> <<>>, outcome |-> <<>>, result |-> <<>>]]
    /\ UNCHANGED <<server, environ, OPENWEATHER_API_KEY, testPc, original_key,
                   spawned>>

\* client.get ends and debug_weather_server.get_weather runs to its end.
DebugDeliver(i, resp) ==
    /\ calls[i].pc = "debug_awaiting"
    /\ calls' =
         [calls EXCEPT ![i] =
            [pc |-> "done", endpoint |-> "get_weather", city |-> calls[i].city,
             requests |-> calls[i].requests, response |-> <<resp>>,
             outcome |-> <<>>,
             result |-> <<DebugResult(calls[i].city, resp)>>]]
    /\ UNCHANGED <<server, environ, OPENWEATHER_API_KEY, testPc, original_key,
                   spawned>>

\* Any of the three scripts, loaded with the environment it was started with.
InitBridge ==
    /\ server \in BridgeServers
    /\ environ \in EnvValues
    /\ OPENWEATHER_API_KEY = getenv(environ, PLACEHOLDER)
    /\ calls = [i \in Slots |-> Idle]
    /\ testPc = "start"
    /\ original_key = Unset
    /\ spawned = [i \in Slots |-> NoSpawn]

NextBridge ==
    \/ /\ server = "weather_server"
       /\ \E ep \in Endpoints(server), city \in Cities : Invoke(1, ep, city)
    \/ \E resp \in CoreResponses : Deliver(1, resp)
    \/ \E city \in Cities, loop \in BOOLEAN : GetWeatherCall(1, city, loop)
    \/ TaskStart(1)
    \/ \E resp \in CoreResponses : TaskDeliver(1, resp)
    \/ \E city1 \in Cities, city2 \in Cities, loop \in BOOLEAN :
         CompareCall(1, city1, city2, loop)
    \/ \E resp \in CoreResponses : CompareFirst(1, resp)
    \/ \E resp \in CoreResponses : CompareSecond(1, resp)
    \/ \E city \in Cities : DebugCall(1, city)
    \/ \E resp \in CoreResponses : DebugDeliver(1, resp)

\* One inbound call of any tool of any of the three scripts, from a thread
\* with or without a running event loop.
SpecBridge == InitBridge /\ [][NextBridge]_vars

\* ------------------------------------------------------------------- claims
Used(i) == calls[i].pc # "idle"
Done(i) == calls[i].pc = "done"
Live(i) == Done(i) /\ Len(calls[i].response) = 1
Outcome(i) == calls[i].outcome[1]
Response(i) == calls[i].response[1]

\* C1: with the placeholder credential, every fetch ends at once with the
\* record {city_name: the input city, 22.5, 72.5, "Partly Cloudy", 65}, has
\* issued no GET, and is no failure.
C1_MockRecord ==
    \A i \in Slots :
        (Used(i) /\ OPENWEATHER_API_KEY = PLACEHOLDER) =>
            /\ Done(i)
            /\ calls[i].requests = <<>>
            /\ calls[i].response = <<>>
            /\ Outcome(i).ok
            /\ Outcome(i).record.city_name = calls[i].city
            /\ Outcome(i).record.temperature_celsius = 225
            /\ Outcome(i).record.temperature_fahrenheit = 725
            /\ Outcome(i).record.condition = "Partly Cloudy"
            /\ Outcome(i).record.humidity = 65

\* A mock fetch of a city other than London has ended.
C1_Witness ==
    \E i \in Slots :
        /\ Done(i)
        /\ OPENWEATHER_API_KEY = PLACEHOLDER
        /\ calls[i].city = "Nowhereville"
        /\ calls[i].endpoint = "fetch_weather_data"

\* C2: the branch is string equality with the placeholder.  A call made with
\* the placeholder credential issues no GET and has ended with a record; a
\* call made with any other credential, the empty string included, has issued
\* exactly one GET carrying the city and that credential; and while the
\* environment is as the process found it, the credential is the setting's
\* value, or the placeholder when the setting is absent.
C2_BinaryBranch ==
    /\ \A i \in Slots :
          Used(i) =>
              IF OPENWEATHER_API_KEY = "your_api_key_here"
              THEN calls[i].requests = <<>> /\ Done(i) /\ Outcome(i).ok
              ELSE /\ Len(calls[i].requests) = 1
                   /\ calls[i].requests[1].url = OPENWEATHER_BASE_URL
                   /\ calls[i].requests[1].params =
                        [q |-> calls[i].city, appid |-> OPENWEATHER_API_KEY,
                         units |-> "metric"]
    /\ testPc = "start" =>
          OPENWEATHER_API_KEY =
              IF environ.set THEN environ.value ELSE "your_api_key_here"

\* A call made with the empty credential has issued its GET.
C2_Witness ==
    \E i \in Slots :
        /\ OPENWEATHER_API_KEY = ""
        /\ Len(calls[i].requests) = 1
        /\ calls[i].requests[1].params.appid = ""

\* C3: a live fetch answered 404 fails with CityNotFound and the message
\* "City '<city>' not found" for the caller's city, not with a failure of
\* another kind wrapping it.
C3_NotFound ==
    \A i \in Slots :
        (Live(i) /\ Response(i).kind = "http" /\ Response(i).status = 404) =>
            Outcome(i) =
                [ok |-> FALSE, failure |-> "CityNotFound",
                 message |-> "City '" \o calls[i].city \o "' not found"]

\* A fetch of Nowhereville was answered 404.
C3_Witness ==
    \E i \in Slots :
        /\ Live(i)
        /\ calls[i].city = "Nowhereville"
        /\ Response(i).kind = "http"
        /\ Response(i).status = 404

NonSuccess(status) == status < 200 \/ status > 299

\* C4: a live fetch answered with a non-success status other than 404 fails
\* with UpstreamError carrying the status code.
C4_UpstreamError ==
    \A i \in Slots :
        (/\ Live(i)
         /\ Response(i).kind = "http"
         /\ NonSuccess(Response(i).status)
         /\ Response(i).status # 404) =>
            Outcome(i) =
                [ok |-> FALSE, failure |-> "UpstreamError",
                 message |-> "Weather API error: "
                             \o ToString(Response(i).status)]

\* A fetch answered 500 has ended.
C4_Witness ==
    \E i \in Slots :
        /\ Live(i)
        /\ Response(i) = Http(500, <<>>)
        /\ ~Outcome(i).ok

\* The payload lacks something the record needs.
Lacking(data) ==
    \/ {"name", "main", "weather"} \ DOMAIN data # {}
    \/ {"temp", "humidity"} \ DOMAIN data.main # {}
    \/ Len(data.weather) = 0
    \/ {"main", "description"} \ DOMAIN data.weather[1] # {}

\* The response is a success status whose body is not the expected JSON.
MalformedBody(resp) ==
    /\ resp.kind = "http"
    /\ ~NonSuccess(resp.status)
    /\ IF resp.body = <<>> THEN TRUE ELSE Lacking(resp.body[1])

\* C5: a live fetch whose request did not complete, or whose payload is not
\* JSON, lacks a required field or has an empty weather list, fails with
\* TransportError, the message being the server's prefix followed by the
\* text of the cause.
C5_TransportError ==
    \A i \in Slots :
        /\ (Live(i) /\ Response(i).kind = "exception") =>
              Outcome(i) =
                  [ok |-> FALSE, failure |-> "TransportError",
                   message |-> TransportPrefix(server) \o Response(i).text]
        /\ (Live(i) /\ MalformedBody(Response(i))) =>
              /\ ~Outcome(i).ok
              /\ Outcome(i).failure = "TransportError"
              /\ Outcome(i).message =
                     TransportPrefix(server) \o TryBody(Response(i)).text

\* A fetch whose payload has an empty weather list has ended in a failure.
C5_Witness ==
    \E i \in Slots :
        /\ Live(i)
        /\ Response(i) =
              Http(200, <<[name |-> "London",
                           main |-> [temp |-> 1500, humidity |-> 80],
                           weather |-> <<>>]>>)
        /\ ~Outcome(i).ok

\* The response is a 200 whose payload has every field the record needs.
WellFormed(resp) ==
    /\ resp.kind = "http"
    /\ resp.status = 200
    /\ resp.body # <<>>
    /\ ~Lacking(resp.body[1])

\* C6: on a well-formed 200 the record takes city_name from the payload's
\* name, temperature_celsius is the tenth nearest to main.temp, condition,
\* description and humidity are weather[0].main, weather[0].description and
\* main.humidity; the payload {London, 15.0, 80, Rain, light rain} gives
\* {London, 15.0, 59.0, Rain, light rain, 80}.
C6_LiveRecord ==
    \A i \in Slots :
        (Live(i) /\ WellFormed(Response(i))) =>
            LET d == Response(i).body[1]
                r == Outcome(i).record
            IN  /\ Outcome(i).ok
                /\ r.city_name = d.name
                /\ Abs(10 * r.temperature_celsius - d.main.temp) <= 5
                /\ r.condition = d.weather[1].main
                /\ r.description = d.weather[1].description
                /\ r.humidity = d.main.humidity
                /\ d = [name |-> "London",
                        main |-> [temp |-> 1500, humidity |-> 80],
                        weather |-> <<[main |-> "Rain",
                                       description |-> "light rain"]>>]
                   => r = [city_name |-> "London",
                           temperature_celsius |-> 150,
                           temperature_fahrenheit |-> 590,
                           condition |-> "Rain",
                           description |-> "light rain",
                           humidity |-> 80]

\* A fetch of "london" got the London payload with 15.0 degrees.
C6_Witness ==
    \E i \in Slots :
        /\ Live(i)
        /\ calls[i].city = "london"
        /\ Response(i) = Http(200, <<Nominal(1500)>>)
        /\ Outcome(i).ok
        /\ Outcome(i).record.city_name = "London"

\* C7 as stated: temperature_fahrenheit is round(temperature_celsius * 9/5 +
\* 32, 1) of the record's own, rounded, temperature_celsius.
C7_RoundTripOfRecord ==
    \A i \in Slots :
        (Live(i) /\ Outcome(i).ok) =>
            Outcome(i).record.temperature_fahrenheit =
                round_fahrenheit(10 * Outcome(i).record.temperature_celsius)

\* C7 amended: temperature_fahrenheit is round(t * 9/5 + 32, 1) of the
\* upstream temperature t before rounding (the tenth nearest to the exact
\* conversion of t); it is the round trip of the record's temperature_celsius
\* when t has at most one decimal, and within 0.1 of it otherwise.
C7_FahrenheitOfUpstream ==
    \A i \in Slots :
        (Live(i) /\ Outcome(i).ok) =>
            LET t == Response(i).body[1].main.temp
                r == Outcome(i).record
            IN  /\ r.temperature_fahrenheit = round_fahrenheit(t)
                /\ Abs(100 * r.temperature_fahrenheit - (18 * t + 32000)) <= 50
                /\ t % 10 = 0 =>
                      r.temperature_fahrenheit =
                          round_fahrenheit(10 * r.temperature_celsius)
                /\ Abs(r.temperature_fahrenheit
                       - round_fahrenheit(10 * r.temperature_celsius)) <= 1

\* A fetch got a temperature with two decimals whose Fahrenheit value is not
\* the round trip of the rounded Celsius value (0.04: 0.0 and 32.1).
C7_Witness ==
    \E i \in Slots :
        /\ Live(i)
        /\ Outcome(i).ok
        /\ Response(i).body[1].main.temp = 4
        /\ Outcome(i).record.temperature_celsius = 0
        /\ Outcome(i).record.temperature_fahrenheit = 321

KeySet == {"city_name", "temperature_celsius", "temperature_fahrenheit",
           "condition", "description", "humidity"}

\* C8: every fetch that has ended gave either a record with exactly the six
\* fields or a failure of one of the three kinds, never a record with a
\* field missing; a payload lacking a field gives a failure.
C8_CompleteOrFailure ==
    \A i \in Slots :
        Done(i) =>
            /\ Len(calls[i].outcome) = 1
            /\ IF Outcome(i).ok
               THEN /\ DOMAIN Outcome(i) = {"ok", "record"}
                    /\ DOMAIN Outcome(i).record = KeySet
               ELSE /\ DOMAIN Outcome(i) = {"ok", "failure", "message"}
                    /\ Outcome(i).failure \in
                          {"CityNotFound", "UpstreamError", "TransportError"}
            /\ (Live(i) /\ MalformedBody(Response(i))) => ~Outcome(i).ok

\* A fetch whose payload has no humidity has ended in a failure.
C8_Witness ==
    \E i \in Slots :
        /\ Live(i)
        /\ Response(i).kind = "http"
        /\ Response(i).status = 200
        /\ Response(i).body # <<>>
        /\ "main" \in DOMAIN Response(i).body[1]
        /\ "temp" \in DOMAIN Response(i).body[1].main
        /\ "humidity" \notin DOMAIN Response(i).body[1].main
        /\ ~Outcome(i).ok

\* C9: get_current_weather always hands back a JSON object: the six-field
\* record with no "error" key exactly when the fetch succeeded, and
\* otherwise the object with exactly the keys error, city and success, city
\* being the input city, success false and error the failure's message.
C9_ToolNeverFails ==
    \A i \in Slots :
        (Done(i) /\ calls[i].endpoint = "get_current_weather") =>
            LET text == calls[i].result[1]
            IN  /\ Len(calls[i].result) = 1
                /\ Outcome(i).ok <=> "error" \notin JsonKeys(text)
                /\ IF Outcome(i).ok
                   THEN /\ JsonKeys(text) = KeySet
                        /\ \A k \in KeySet :
                              JsonGet(text, k) = Outcome(i).record[k]
                   ELSE /\ JsonKeys(text) = {"error", "city", "success"}
                        /\ Len(text) = 3
                        /\ JsonGet(text, "city") = calls[i].city
                        /\ JsonGet(text, "success") = FALSE
                        /\ JsonGet(text, "error") = Outcome(i).message
                        /\ Outcome(i).failure \in
                              {"CityNotFound", "UpstreamError", "TransportError"}

\* The tool has handed back the error object for a fetch that timed out.
C9_Witness ==
    \E i \in Slots :
        /\ Done(i)
        /\ calls[i].endpoint = "get_current_weather"
        /\ calls[i].city = "Nowhereville"
        /\ Len(calls[i].response) = 1
        /\ Response(i).kind = "exception"
        /\ ~Outcome(i).ok
        /\ Len(calls[i].result) = 1

\* C10: two fetches of the same city (the credential is the process's one)
\* with identical upstream responses, or both mocked, end the same way.
C10_Idempotent ==
    \A i, j \in Slots :
        (/\ Done(i) /\ Done(j)
         /\ calls[i].city = calls[j].city
         /\ calls[i].response = calls[j].response) =>
            Outcome(i) = Outcome(j)

\* Two live fetches of one city with the same 200 response have both ended
\* with a record.
C10_Witness ==
    \E i, j \in Slots :
        /\ i # j
        /\ Live(i) /\ Live(j)
        /\ calls[i].city = calls[j].city
        /\ Response(i) = Response(j)
        /\ Outcome(i).ok /\ Outcome(j).ok

\* The environment entry the process was started with: test_mock_mode saves
\* it before it writes the environment.
StartupEnviron == IF testPc = "start" THEN environ ELSE original_key

StartupKey ==
    IF StartupEnviron.set THEN StartupEnviron.value ELSE "your_api_key_here"

Begins(i) == calls[i].pc = "idle" /\ calls'[i].pc # "idle"

C12_MockOncePatched ==
    [][\A i \in Slots :
          (testPc = "patched" /\ Begins(i)) =>
              /\ calls'[i].pc = "done"
              /\ calls'[i].requests = <<>>
              /\ calls'[i].outcome =
                   <<[ok |-> TRUE,
                      record |-> MockRecord(server, calls'[i].city)]>>]_vars

\* The outcome the invocation in slot i has when it runs alone with its
\* city, the process's credential and its response.
Alone(i) ==
    IF calls[i].response = <<>>
    THEN Success(MockRecord(server, calls[i].city))
    ELSE LiveOutcome(server, calls[i].city, Response(i))

C17_HumidityInRange ==
    \A i \in Slots :
        (Done(i) /\ Outcome(i).ok) => Outcome(i).record.humidity \in 0..100

\* C17 amended: a record's humidity is 65 on the mock path and the payload's
\* main.humidity, unchanged, on the live path; it is from 0 to 100 exactly
\* when the value the upstream sent is.
C17_HumidityAsSent ==
    \A i \in Slots :
        (Done(i) /\ Outcome(i).ok) =>
            LET sent == IF calls[i].response = <<>> THEN 65
                        ELSE Response(i).body[1].main.humidity
            IN  /\ Outcome(i).record.humidity = sent
                /\ Outcome(i).record.humidity \in 0..100 <=> sent \in 0..100

\* A live fetch has returned a record whose humidity is 150, as sent.
C17_Witness ==
    \E i \in Slots :
        /\ Live(i)
        /\ Outcome(i).ok
        /\ Response(i).body[1].main.humidity = 150
        /\ Outcome(i).record.humidity = 150

\* The executions of fetch_weather_data the call in slot i has started (the
\* one it waits for, and the one create_task scheduled once it has begun),
\* and the GETs the call has caused.
FetchExecutions(i) ==
    (IF calls[i].requests # <<>> \/ calls[i].outcome # <<>> THEN 1 ELSE 0)
    + (IF spawned[i].pc \in {"awaiting", "done"} THEN 1 ELSE 0)

Gets(i) == Len(calls[i].requests) + Len(spawned[i].requests)

\* C13: in live mode a call of a single-city endpoint (get_current_weather,
\* get_weather_resource, either get_weather) causes at most one execution of
\* the fetch and at most one GET, however it ends.
C13_AtMostOneGet ==
    \A i \in Slots :
        (/\ ~mock_mode(OPENWEATHER_API_KEY)
         /\ calls[i].endpoint \in {"get_current_weather",
                                   "get_weather_resource", "get_weather"}) =>
            /\ FetchExecutions(i) <= 1
            /\ Gets(i) <= 1

\* C14: when an endpoint has returned its result, every execution of the
\* fetch the call started has ended; none is pending or still running.
C14_NothingLeftAtReturn ==
    \A i \in Slots :
        calls[i].pc = "done" => spawned[i].pc \in {"none", "done"}

\* C16: compare_weather returns the comparison of both records whenever both
\* fetches succeed (always on the placeholder credential), with or without a
\* running loop in the calling thread, and the "Error comparing weather"
\* string only when one of its two fetches failed.
C16_CompareWeather ==
    \A i \in Slots :
        (calls[i].pc = "done" /\ calls[i].endpoint = "compare_weather") =>
            LET first == calls[i].outcome
                second == spawned[i].outcome
            IN  IF first # <<>> /\ ~first[1].ok
                THEN calls[i].result = <<CompareError(first[1].message)>>
                ELSE IF second # <<>> /\ ~second[1].ok
                THEN calls[i].result = <<CompareError(second[1].message)>>
                ELSE IF mock_mode(OPENWEATHER_API_KEY)
                THEN calls[i].result =
                       <<FormatComparison(MockRecord(server, calls[i].city),
                                          MockRecord(server, spawned[i].city2))>>
                ELSE /\ first # <<>>
                     /\ second # <<>>
                     /\ calls[i].result =
                          <<FormatComparison(first[1].record, second[1].record)>>

\* C18: simple_weather_server.get_weather returns the prose of the fetched
\* record whenever the fetch succeeds (always on the placeholder credential),
\* with or without a running loop in the calling thread, and the "Error
\* getting weather" string only when the fetch failed.
C18_GetWeather ==
    \A i \in Slots :
        (/\ server = "simple_weather_server"
         /\ calls[i].pc = "done"
         /\ calls[i].endpoint = "get_weather") =>
            IF calls[i].outcome # <<>> /\ ~calls[i].outcome[1].ok
            THEN calls[i].result =
                   <<<<"Error getting weather for " \o calls[i].city \o ": "
                       \o calls[i].outcome[1].message>>>>
            ELSE IF mock_mode(OPENWEATHER_API_KEY)
            THEN calls[i].result =
                   <<FormatWeather(calls[i].city,
                        Success(MockRecord(server, calls[i].city)))>>
            ELSE /\ calls[i].outcome # <<>>
                 /\ calls[i].result =
                      <<FormatWeather(calls[i].city, calls[i].outcome[1])>>

====
